---- MODULE Spec2Model ----
(***************************************************************************)
(* pyudev.monitor: Monitor (synchronous poll) and MonitorObserver (the     *)
(* background thread with its stop pipe).  One observer on one monitor,    *)
(* two foreign threads ("main", "aux") and the observer thread ("obs").    *)
(* Every statement after which the interpreter can switch threads is one   *)
(* step.  The constructors and the filter operations are one step each.    *)
(***************************************************************************)
EXTENDS Naturals, Sequences, FiniteSets

\* ---------------------------------------------------------------- bounds
MaxEvents == 2      \* events the daemon delivers to the monitor
MaxConnects == 2    \* connection attempts of Monitor.from_netlink

Callers == {"main", "aux"}          \* threads other than the observer thread
Threads == Callers \cup {"obs"}
Timeouts == {"None", "zero", "positive"}
Sources == {"udev", "kernel"}       \* the sources from_netlink accepts
SourceArgs == Sources \cup {"other"}
Callbacks == {"None", "callable"}   \* callback argument of MonitorObserver()
Matches == {"subsystem", "subsystem_devtype", "tag"}

VARIABLES
    pc,          \* position of each thread
    op,          \* observer method a thread is in: "none", "send_stop", "stop"
    pend,        \* thread holds an exception raised by os.write (try block)
    started,     \* Monitor._started
    enableCount, \* calls of udev_monitor_enable_receiving
    delivered,   \* every event delivered to the monitor's socket, in order
    queue,       \* events buffered in the socket, not yet received
    log,         \* devices passed to the callback, in invocation order
    events,      \* the list returned by the last notifier.poll()
    pos,         \* index in events of the entry the for loop is at
    timeout,     \* timeout argument of main's Monitor.poll() call
    sinkAttr,    \* self._stop_event_sink: "fd" or "None"
    sinkOpen,    \* the write end's descriptor is open
    srcOpen,     \* the read end's descriptor (_stop_event_source) is open
    written,     \* bytes written to the pipe (the observer never reads them)
    closeCalls,  \* os.close() calls made on the write end's descriptor: 0, 1,
                 \* or 2 for two and more
    ncalls,      \* send_stop()/stop() calls begun: 0, 1, or 2 for two and more
    raised,      \* some send_stop()/stop() call raised
    stopRet,     \* some stop() call of a foreign thread returned normally
    selfStopRet, \* some stop() call of the observer thread returned normally
    callerRecv,  \* main made a receive itself (the observer is not the only reader)
    earlyStop,   \* some stop() call of a foreign thread returned before
                 \* Thread.start() of the observer
    result,      \* outcome of main's Monitor.poll() call, at its return: None,
                 \* "error" (EnvironmentError) or a Device; "none" otherwise
    monitor,     \* the Monitor object exists
    source,      \* source argument of the last Monitor.from_netlink() call
    connects,    \* calls of udev_monitor_new_from_netlink
    ctorError,   \* exception of the last constructor call, "none" without
    filters,     \* matches added to the libudev monitor object
    kernelFilters, \* matches installed on the socket by udev_monitor_filter_update
    noopStart    \* some start() call of main found the monitor started

vars == <<pc, op, pend, started, enableCount, delivered, queue, log, events, pos,
          timeout, sinkAttr, sinkOpen, srcOpen, written, closeCalls, ncalls,
          raised, stopRet, selfStopRet, callerRecv, earlyStop, result,
          monitor, source, connects, ctorError, filters, kernelFilters, noopStart>>

monVars  == <<started, enableCount>>
chanVars == <<delivered, queue>>
loopVars == <<events, pos>>
pipeVars == <<sinkAttr, sinkOpen, srcOpen, written, closeCalls>>
histVars == <<raised, stopRet, selfStopRet, callerRecv>>
objVars  == <<monitor, source, connects, ctorError>>
filterVars == <<filters, kernelFilters>>
extVars  == <<objVars, filterVars, result, earlyStop, noopStart>>

\* ------------------------------------------------------------- helpers
\* What a Monitor.poll() call ends with: a Device, or None, or an exception.
Outcome(kind) == [kind |-> kind, device |-> 0]

Received(d) == [kind |-> "Device", device |-> d]

\* A direct Monitor.poll() call of main ends: it returns or raises.
polled == pc["main"] = "poll_ret"

\* The observer thread has ended: run() returned ("exited"), a receive raised
\* EnvironmentError ("failed"), or the callback raised ("crashed").
ObserverExited == pc["obs"] \in {"exited", "failed", "crashed"}

\* The orders in which a set of ready descriptors can be listed.
Orders(S) ==
    {s \in [1..Cardinality(S) -> S] : \A i, j \in 1..Cardinality(S) : s[i] = s[j] => i = j}

StopNeverReadable == FALSE

\* The stop pipe's read end is reported: a byte is buffered, or the write end
\* is closed (hang-up).
StopReadable == srcOpen /\ (written > 0 \/ ~sinkOpen)

MonitorNeverReadable == FALSE

\* The monitor's socket is reported: an event is buffered.
MonitorReadable == queue # <<>>

ReadySet == (IF StopReadable THEN {"stop"} ELSE {})
            \cup (IF MonitorReadable THEN {"monitor"} ELSE {})

\* The device udev_monitor_receive_device hands out: the oldest buffered event.
NextDeviceNewest(q) == q[Len(q)]

NextDevice(q) == Head(q)

\* Where the observer's for loop goes after the entry at pos.
AfterEntry == IF pos + 1 > Len(events) THEN "wait" ELSE "iter"

\* The list and the index of the for loop after the entry at pos; the list is
\* dropped when the loop is left.
RestOfEvents == IF pos + 1 > Len(events) THEN <<>> ELSE events

NextPosSame == IF pos + 1 > Len(events) THEN 1 ELSE pos

NextPos == IF pos + 1 > Len(events) THEN 1 ELSE pos + 1

\* No thread is between the None test and the assignment of send_stop().
NoSendStopActive == \A t \in Threads : pc[t] \notin {"ss_write", "ss_close", "ss_setnone"}

\* ---------------------------------------------------------- construction
\* Monitor.__init__ and MonitorObserver.__init__ with a callback given.
Init ==
    /\ pc = [t \in Threads |-> IF t = "obs" THEN "created" ELSE "idle"]
    /\ op = [t \in Threads |-> "none"]
    /\ pend = [t \in Threads |-> FALSE]
    /\ started = FALSE
    /\ enableCount = 0
    /\ delivered = <<>>
    /\ queue = <<>>
    /\ log = <<>>
    /\ events = <<>>
    /\ pos = 1
    /\ timeout = "zero"
    /\ sinkAttr = "fd"
    /\ sinkOpen = TRUE
    /\ srcOpen = TRUE
    /\ written = 0
    /\ closeCalls = 0
    /\ ncalls = 0
    /\ raised = FALSE
    /\ stopRet = FALSE
    /\ selfStopRet = FALSE
    /\ callerRecv = FALSE
    /\ earlyStop = FALSE
    /\ result = Outcome("none")
    /\ monitor = TRUE
    /\ source = "udev"
    /\ connects = 1
    /\ ctorError = "none"
    /\ filters = {}
    /\ kernelFilters = {}
    /\ noopStart = FALSE

\* Before any constructor call: no Monitor, no observer, no pipe.
InitCtor ==
    /\ pc = [t \in Threads |-> IF t = "obs" THEN "none" ELSE "idle"]
    /\ op = [t \in Threads |-> "none"]
    /\ pend = [t \in Threads |-> FALSE]
    /\ started = FALSE
    /\ enableCount = 0
    /\ delivered = <<>>
    /\ queue = <<>>
    /\ log = <<>>
    /\ events = <<>>
    /\ pos = 1
    /\ timeout = "zero"
    /\ sinkAttr = "unset"
    /\ sinkOpen = FALSE
    /\ srcOpen = FALSE
    /\ written = 0
    /\ closeCalls = 0
    /\ ncalls = 0
    /\ raised = FALSE
    /\ stopRet = FALSE
    /\ selfStopRet = FALSE
    /\ callerRecv = FALSE
    /\ earlyStop = FALSE
    /\ result = Outcome("none")
    /\ monitor = FALSE
    /\ source = "none"
    /\ connects = 0
    /\ ctorError = "none"
    /\ filters = {}
    /\ kernelFilters = {}
    /\ noopStart = FALSE

\* Monitor.from_netlink(context, source) with the source tested after the
\* connection attempt.
FromNetlinkLateCheck(src, ok) ==
    /\ ~monitor
    /\ pc["main"] = "idle"
    /\ connects < MaxConnects
    /\ source' = src
    /\ connects' = connects + 1
    /\ ctorError' = IF src \notin Sources THEN "ValueError"
                    ELSE IF ok THEN "none" ELSE "EnvironmentError"
    /\ monitor' = (src \in Sources /\ ok)
    /\ started' = FALSE
    /\ UNCHANGED <<pc, op, pend, enableCount, chanVars, log, loopVars, timeout,
                   pipeVars, ncalls, histVars, earlyStop, noopStart, result, filterVars>>

\* Monitor.from_netlink(context, source): ValueError for an unknown source,
\* else udev_monitor_new_from_netlink, EnvironmentError when it returns
\* nothing, else Monitor.__init__ with _started = False.
FromNetlink(src, ok) ==
    /\ ~monitor
    /\ pc["main"] = "idle"
    /\ source' = src
    /\ IF src \notin Sources
       THEN /\ ctorError' = "ValueError"
            /\ UNCHANGED <<monitor, connects, started>>
       ELSE /\ connects < MaxConnects
            /\ connects' = connects + 1
            /\ IF ok
               THEN /\ monitor' = TRUE
                    /\ started' = FALSE
                    /\ ctorError' = "none"
               ELSE /\ ctorError' = "EnvironmentError"
                    /\ UNCHANGED <<monitor, started>>
    /\ UNCHANGED <<pc, op, pend, enableCount, chanVars, log, loopVars, timeout,
                   pipeVars, ncalls, histVars, earlyStop, noopStart, result, filterVars>>

\* MonitorObserver.__init__ with os.pipe() called before the callback test.
ObserverNewPipeFirst(cb) ==
    /\ monitor
    /\ pc["main"] = "idle"
    /\ pc["obs"] = "none"
    /\ sinkAttr' = "fd"
    /\ sinkOpen' = TRUE
    /\ srcOpen' = TRUE
    /\ ctorError' = IF cb = "None" THEN "ValueError" ELSE "none"
    /\ pc' = [pc EXCEPT !["obs"] = IF cb = "None" THEN "none" ELSE "created"]
    /\ UNCHANGED <<op, pend, monVars, chanVars, log, loopVars, timeout, written,
                   closeCalls, ncalls, histVars, earlyStop, noopStart, result, monitor,
                   source, connects, filterVars>>

\* MonitorObserver.__init__(monitor, callback): ValueError without a
\* callback, else Thread.__init__ and os.pipe().
ObserverNew(cb) ==
    /\ monitor
    /\ pc["main"] = "idle"
    /\ pc["obs"] = "none"
    /\ IF cb = "None"
       THEN /\ ctorError' = "ValueError"
            /\ UNCHANGED <<pc, sinkAttr, sinkOpen, srcOpen>>
       ELSE /\ ctorError' = "none"
            /\ pc' = [pc EXCEPT !["obs"] = "created"]
            /\ sinkAttr' = "fd"
            /\ sinkOpen' = TRUE
            /\ srcOpen' = TRUE
    /\ UNCHANGED <<op, pend, monVars, chanVars, log, loopVars, timeout, written,
                   closeCalls, ncalls, histVars, earlyStop, noopStart, result, monitor,
                   source, connects, filterVars>>

\* ------------------------------------------------------------ environment
\* The daemon delivers the next event; the socket receives only once
\* udev_monitor_enable_receiving has been called.
Deliver ==
    /\ enableCount > 0
    /\ Len(delivered) < MaxEvents
    /\ delivered' = Append(delivered, Len(delivered) + 1)
    /\ queue' = Append(queue, Len(delivered) + 1)
    /\ UNCHANGED <<extVars, pc, op, pend, monVars, log, loopVars, timeout, pipeVars,
                   ncalls, histVars>>

\* Thread.start() of the observer, called by main.
ThreadStart ==
    /\ pc["main"] = "idle"
    /\ pc["obs"] = "created"
    /\ pc' = [pc EXCEPT !["obs"] = "run"]
    /\ UNCHANGED <<extVars, op, pend, monVars, chanVars, log, loopVars, timeout, pipeVars,
                   ncalls, histVars>>

\* ---------------------------------------------------------------- Monitor
StartEnablesAlways == TRUE

StartEnablesNever == FALSE

\* Monitor.start(), "if not self._started".
StartEnables == ~started

\* Monitor.start(), the test of _started: main calls it directly, run() calls
\* it first.  On a started monitor the call does nothing.
MonitorStart(t) ==
    /\ monitor
    /\ \/ t = "main" /\ pc[t] = "idle"
       \/ t = "obs" /\ pc[t] = "run"
    /\ pc' = [pc EXCEPT ![t] = IF StartEnables THEN "ms_enable"
                                ELSE IF t = "obs" THEN "wait" ELSE "idle"]
    /\ UNCHANGED <<extVars, op, pend, monVars, chanVars, log, loopVars, timeout, pipeVars,
                   ncalls, histVars>>

\* Monitor.start(), udev_monitor_enable_receiving and _started = True.
MonitorEnable(t) ==
    /\ pc[t] = "ms_enable"
    /\ enableCount' = enableCount + 1
    /\ started' = TRUE
    /\ pc' = [pc EXCEPT ![t] = IF t = "obs" THEN "wait" ELSE "idle"]
    /\ UNCHANGED <<extVars, op, pend, chanVars, log, loopVars, timeout, pipeVars,
                   ncalls, histVars>>

\* Monitor.start() called by main on a started monitor, with the call
\* recorded: it returns without having done anything.
MonitorStartAgain ==
    /\ monitor
    /\ pc["main"] = "idle"
    /\ ~StartEnables
    /\ noopStart' = TRUE
    /\ UNCHANGED <<objVars, filterVars, result, earlyStop, pc, op, pend, monVars,
                   chanVars, log, loopVars, timeout,
                   pipeVars, ncalls, histVars>>

\* Monitor.poll(timeout) called directly by main.
PollCall(tmo) ==
    /\ monitor
    /\ pc["main"] = "idle"
    /\ timeout' = tmo
    /\ pc' = [pc EXCEPT !["main"] = "poll_select"]
    /\ UNCHANGED <<extVars, op, pend, monVars, chanVars, log, loopVars, pipeVars,
                   ncalls, histVars>>

BlocksAlways(tmo) == TRUE

\* select.select with a timeout of 0 returns at once; with a positive timeout
\* or with None the caller waits.
Blocks(tmo) == tmo # "zero"

\* Monitor.poll(), select.select([self], [], [], timeout): the monitor is
\* ready, or it is not and the caller waits ("poll_wait"), or, with timeout 0,
\* poll() returns None at once.  The observer calls it with timeout 0.
PollSelect(t) ==
    /\ pc[t] = "poll_select"
    /\ IF MonitorReadable
       THEN /\ pc' = [pc EXCEPT ![t] = "poll_recv"]
            /\ timeout' = IF t = "main" THEN "zero" ELSE timeout
            /\ UNCHANGED <<loopVars, result>>
       ELSE IF t = "obs"
       THEN /\ pc' = [pc EXCEPT ![t] = AfterEntry]
            /\ events' = RestOfEvents
            /\ pos' = NextPos
            /\ UNCHANGED <<timeout, result>>
       ELSE IF Blocks(timeout)
       THEN /\ pc' = [pc EXCEPT ![t] = "poll_wait"]
            /\ UNCHANGED <<loopVars, timeout, result>>
       ELSE /\ pc' = [pc EXCEPT ![t] = "poll_ret"]
            /\ result' = Outcome("None")
            /\ UNCHANGED <<loopVars, timeout>>
    /\ UNCHANGED <<objVars, filterVars, earlyStop, noopStart, op, pend, monVars, chanVars, log,
                   pipeVars, ncalls, histVars>>

\* Monitor.poll(), main waiting in select.select: the monitor becomes ready,
\* or a positive timeout passes and poll() returns None.
PollWake ==
    /\ pc["main"] = "poll_wait"
    /\ IF MonitorReadable
       THEN /\ pc' = [pc EXCEPT !["main"] = "poll_recv"]
            /\ timeout' = "zero"
            /\ UNCHANGED result
       ELSE /\ timeout # "None"
            /\ pc' = [pc EXCEPT !["main"] = "poll_ret"]
            /\ result' = Outcome("None")
            /\ UNCHANGED timeout
    /\ UNCHANGED <<objVars, filterVars, earlyStop, noopStart, op, pend, monVars, chanVars, log,
                   loopVars, pipeVars, ncalls, histVars>>

FailedResultNone == Outcome("None")

\* Monitor.poll(), "if not device_p: raise EnvironmentError".
FailedResult == Outcome("error")

AfterSwallowedReceive(t) == IF t = "obs" THEN "wait" ELSE "poll_ret"

\* Where a thread is after a failed receive: the exception leaves run() in
\* the observer thread, and poll() in main.
AfterFailedReceive(t) == IF t = "obs" THEN "failed" ELSE "poll_ret"

\* Monitor.poll(), udev_monitor_receive_device: a Device, or nothing and
\* EnvironmentError.  In the observer the Device goes to the callback.
PollReceive(t) ==
    /\ pc[t] = "poll_recv"
    /\ \E ok \in BOOLEAN :
         IF ok /\ queue # <<>>
         THEN /\ queue' = Tail(queue)
              /\ IF t = "obs"
                 THEN /\ log' = Append(log, NextDevice(queue))
                      /\ pc' = [pc EXCEPT ![t] = "callback"]
                      /\ UNCHANGED <<loopVars, callerRecv, result>>
                 ELSE /\ pc' = [pc EXCEPT ![t] = "poll_ret"]
                      /\ result' = Received(NextDevice(queue))
                      /\ callerRecv' = TRUE
                      /\ UNCHANGED <<log, loopVars>>
         ELSE /\ queue' = IF queue = <<>> THEN queue ELSE Tail(queue)
              /\ pc' = [pc EXCEPT ![t] = AfterFailedReceive(t)]
              /\ callerRecv' = (callerRecv \/ t = "main")
              /\ result' = IF t = "main" THEN FailedResult ELSE result
              /\ events' = IF t = "obs" THEN <<>> ELSE events
              /\ pos' = IF t = "obs" THEN 1 ELSE pos
              /\ UNCHANGED log
    /\ UNCHANGED <<objVars, filterVars, earlyStop, noopStart, op, pend, monVars, delivered,
                   timeout, pipeVars, ncalls, raised, stopRet, selfStopRet>>

\* Monitor.poll() ends in main: the caller has the Device, None or the
\* exception.
PollReturn ==
    /\ pc["main"] = "poll_ret"
    /\ pc' = [pc EXCEPT !["main"] = "idle"]
    /\ result' = Outcome("none")
    /\ timeout' = "zero"
    /\ UNCHANGED <<objVars, filterVars, earlyStop, noopStart, op, pend, monVars, chanVars, log,
                   loopVars, pipeVars, ncalls, histVars>>

FilterUpdateSkipped(f) == kernelFilters

\* udev_monitor_filter_update: the socket's filter becomes the matches of the
\* monitor object.
FilterUpdate(f) == f

\* Monitor.filter_by(subsystem, device_type).
FilterBy(devtype) ==
    /\ monitor
    /\ pc["main"] = "idle"
    /\ filters' = filters \cup {IF devtype THEN "subsystem_devtype" ELSE "subsystem"}
    /\ kernelFilters' = FilterUpdate(filters')
    /\ UNCHANGED <<pc, op, pend, monVars, chanVars, log, loopVars, timeout,
                   pipeVars, ncalls, histVars, earlyStop, noopStart, result, objVars>>

\* Monitor.filter_by_tag(tag).
FilterByTag ==
    /\ monitor
    /\ pc["main"] = "idle"
    /\ filters' = filters \cup {"tag"}
    /\ kernelFilters' = FilterUpdate(filters')
    /\ UNCHANGED <<pc, op, pend, monVars, chanVars, log, loopVars, timeout,
                   pipeVars, ncalls, histVars, earlyStop, noopStart, result, objVars>>

\* Monitor.remove_filter().
RemoveFilter ==
    /\ monitor
    /\ pc["main"] = "idle"
    /\ filters' = {}
    /\ kernelFilters' = FilterUpdate(filters')
    /\ UNCHANGED <<pc, op, pend, monVars, chanVars, log, loopVars, timeout,
                   pipeVars, ncalls, histVars, earlyStop, noopStart, result, objVars>>

\* ------------------------------------------------------- MonitorObserver.run
\* notifier.poll(): blocks until a registered descriptor is ready and returns
\* the ready ones, in no specified order.
Wait ==
    /\ pc["obs"] = "wait"
    /\ ReadySet # {}
    /\ \E order \in Orders(ReadySet) : events' = order
    /\ pos' = 1
    /\ pc' = [pc EXCEPT !["obs"] = "iter"]
    /\ UNCHANGED <<extVars, op, pend, monVars, chanVars, log, timeout, pipeVars,
                   ncalls, histVars>>

\* The body of the for loop for the entry at pos: the stop descriptor closes
\* the read end and returns, any other descriptor polls the monitor.
LoopEntry ==
    /\ pc["obs"] = "iter"
    /\ pos <= Len(events)
    /\ IF events[pos] = "stop"
       THEN /\ srcOpen' = FALSE
            /\ pc' = [pc EXCEPT !["obs"] = "exited"]
            /\ events' = <<>>
            /\ pos' = 1
       ELSE /\ pc' = [pc EXCEPT !["obs"] = "poll_select"]
            /\ UNCHANGED <<srcOpen, loopVars>>
    /\ UNCHANGED <<extVars, op, pend, monVars, chanVars, log, timeout, sinkAttr,
                   sinkOpen, written, closeCalls, ncalls, histVars>>

\* The callback returns.
CallbackReturn ==
    /\ pc["obs"] \in {"callback", "cb_after"}
    /\ pc' = [pc EXCEPT !["obs"] = AfterEntry]
    /\ events' = RestOfEvents
    /\ pos' = NextPos
    /\ UNCHANGED <<extVars, op, pend, monVars, chanVars, log, timeout, pipeVars,
                   ncalls, histVars>>

\* ------------------------------------------- MonitorObserver.send_stop, stop
ReturnedJoins(t) == "join"

\* The end of a send_stop() that did not raise: stop() goes on to join().
Returned(t) == IF op[t] = "stop" THEN "join"
               ELSE IF t = "obs" THEN "cb_after" ELSE "idle"

\* An exception leaves send_stop(): in a foreign thread it reaches the caller,
\* in the observer thread it leaves the callback and run().
Thrown(t) == IF t = "obs" THEN "crashed" ELSE "idle"

\* send_stop() or stop() is called and tests _stop_event_sink: by a foreign
\* thread, or by the callback in the observer thread.  seq: calls do not overlap.
SendStopCall(t, o, seq) ==
    /\ pc[t] = IF t = "obs" THEN "callback" ELSE "idle"
    /\ seq => NoSendStopActive
    /\ ncalls' = IF ncalls < 2 THEN ncalls + 1 ELSE ncalls
    /\ op' = [op EXCEPT ![t] = o]
    /\ pc' = [pc EXCEPT ![t] = IF sinkAttr = "None"
                                THEN (IF o = "stop" THEN "join"
                                      ELSE IF t = "obs" THEN "cb_after" ELSE "idle")
                                ELSE "ss_write"]
    /\ UNCHANGED <<extVars, pend, monVars, chanVars, log, loopVars, timeout, pipeVars,
                   histVars>>

\* os.write(self._stop_event_sink, b'\x01')
SendStopWrite(t) ==
    /\ pc[t] = "ss_write"
    /\ IF sinkAttr = "fd" /\ sinkOpen /\ srcOpen
       THEN /\ written' = written + 1
            /\ pend' = pend
       ELSE /\ written' = written
            /\ pend' = [pend EXCEPT ![t] = TRUE]
    /\ pc' = [pc EXCEPT ![t] = "ss_close"]
    /\ UNCHANGED <<extVars, op, monVars, chanVars, log, loopVars, timeout, sinkAttr,
                   sinkOpen, srcOpen, closeCalls, ncalls, histVars>>

\* finally: os.close(self._stop_event_sink)
SendStopClose(t) ==
    /\ pc[t] = "ss_close"
    /\ IF sinkAttr = "fd" /\ sinkOpen
       THEN /\ sinkOpen' = FALSE
            /\ closeCalls' = closeCalls + 1
            /\ pc' = [pc EXCEPT ![t] = "ss_setnone"]
            /\ UNCHANGED <<pend, op, raised>>
       ELSE /\ sinkOpen' = sinkOpen
            /\ closeCalls' = IF sinkAttr = "fd" /\ closeCalls < 2
                             THEN closeCalls + 1 ELSE closeCalls
            /\ raised' = TRUE
            /\ pend' = [pend EXCEPT ![t] = FALSE]
            /\ op' = [op EXCEPT ![t] = "none"]
            /\ pc' = [pc EXCEPT ![t] = Thrown(t)]
    /\ events' = IF pc'["obs"] = "crashed" THEN <<>> ELSE events
    /\ pos' = IF pc'["obs"] = "crashed" THEN 1 ELSE pos
    /\ UNCHANGED <<extVars, monVars, chanVars, log, timeout, sinkAttr, srcOpen,
                   written, ncalls, stopRet, selfStopRet, callerRecv>>

\* send_stop() that leaves _stop_event_sink as it is.
SendStopKeepsSink(t) ==
    /\ pc[t] = "ss_setnone"
    /\ IF pend[t]
       THEN /\ raised' = TRUE
            /\ pend' = [pend EXCEPT ![t] = FALSE]
            /\ op' = [op EXCEPT ![t] = "none"]
            /\ pc' = [pc EXCEPT ![t] = Thrown(t)]
       ELSE /\ pc' = [pc EXCEPT ![t] = Returned(t)]
            /\ op' = [op EXCEPT ![t] = IF op[t] = "stop" THEN "stop" ELSE "none"]
            /\ UNCHANGED <<pend, raised>>
    /\ events' = IF pc'["obs"] = "crashed" THEN <<>> ELSE events
    /\ pos' = IF pc'["obs"] = "crashed" THEN 1 ELSE pos
    /\ UNCHANGED <<extVars, monVars, chanVars, log, timeout, pipeVars, ncalls,
                   stopRet, selfStopRet, callerRecv>>

\* finally: self._stop_event_sink = None, then the end of send_stop()
SendStopSetNone(t) ==
    /\ pc[t] = "ss_setnone"
    /\ sinkAttr' = "None"
    /\ IF pend[t]
       THEN /\ raised' = TRUE
            /\ pend' = [pend EXCEPT ![t] = FALSE]
            /\ op' = [op EXCEPT ![t] = "none"]
            /\ pc' = [pc EXCEPT ![t] = Thrown(t)]
       ELSE /\ pc' = [pc EXCEPT ![t] = Returned(t)]
            /\ op' = [op EXCEPT ![t] = IF op[t] = "stop" THEN "stop" ELSE "none"]
            /\ UNCHANGED <<pend, raised>>
    /\ events' = IF pc'["obs"] = "crashed" THEN <<>> ELSE events
    /\ pos' = IF pc'["obs"] = "crashed" THEN 1 ELSE pos
    /\ UNCHANGED <<extVars, monVars, chanVars, log, timeout, sinkOpen, srcOpen,
                   written, closeCalls, ncalls, stopRet, selfStopRet,
                   callerRecv>>

\* stop() with join() outside any try: RuntimeError leaves stop().
JoinUnguarded(t) ==
    /\ pc[t] = "join"
    /\ t # "obs" => (pc["obs"] = "created" \/ ObserverExited)
    /\ pc' = [pc EXCEPT ![t] = IF t = "obs" THEN "crashed" ELSE "idle"]
    /\ op' = [op EXCEPT ![t] = "none"]
    /\ raised' = (raised \/ t = "obs" \/ pc["obs"] = "created")
    /\ stopRet' = (stopRet \/ (t # "obs" /\ ObserverExited))
    /\ events' = IF t = "obs" THEN <<>> ELSE events
    /\ pos' = IF t = "obs" THEN 1 ELSE pos
    /\ UNCHANGED <<extVars, pend, monVars, chanVars, log, timeout, pipeVars,
                   ncalls, selfStopRet, callerRecv>>

\* stop() whose join() returns while the observer thread is running.
JoinNoWait(t) ==
    /\ pc[t] = "join"
    /\ pc' = [pc EXCEPT ![t] = IF t = "obs" THEN "cb_after" ELSE "idle"]
    /\ op' = [op EXCEPT ![t] = "none"]
    /\ stopRet' = (stopRet \/ t # "obs")
    /\ selfStopRet' = (selfStopRet \/ t = "obs")
    /\ earlyStop' = (earlyStop \/ (t # "obs" /\ pc["obs"] = "created"))
    /\ UNCHANGED <<objVars, filterVars, result, noopStart, pend, monVars, chanVars,
                   log, loopVars, timeout, pipeVars, ncalls, raised, callerRecv>>

\* stop() that also marks the monitor as not started.
JoinStopsMonitor(t) ==
    /\ pc[t] = "join"
    /\ t # "obs" => (pc["obs"] = "created" \/ ObserverExited)
    /\ pc' = [pc EXCEPT ![t] = IF t = "obs" THEN "cb_after" ELSE "idle"]
    /\ op' = [op EXCEPT ![t] = "none"]
    /\ stopRet' = (stopRet \/ t # "obs")
    /\ selfStopRet' = (selfStopRet \/ t = "obs")
    /\ earlyStop' = (earlyStop \/ (t # "obs" /\ pc["obs"] = "created"))
    /\ started' = FALSE
    /\ UNCHANGED <<objVars, filterVars, result, noopStart, pend, enableCount, chanVars,
                   log, loopVars, timeout, pipeVars, ncalls, raised, callerRecv>>

\* stop(): self.join() with RuntimeError passed over.  join() raises
\* RuntimeError in the observer thread itself and for a thread not yet
\* started; otherwise it blocks until the observer thread has ended.
Join(t) ==
    /\ pc[t] = "join"
    /\ t # "obs" => (pc["obs"] = "created" \/ ObserverExited)
    /\ pc' = [pc EXCEPT ![t] = IF t = "obs" THEN "cb_after" ELSE "idle"]
    /\ op' = [op EXCEPT ![t] = "none"]
    /\ stopRet' = (stopRet \/ t # "obs")
    /\ selfStopRet' = (selfStopRet \/ t = "obs")
    /\ earlyStop' = (earlyStop \/ (t # "obs" /\ pc["obs"] = "created"))
    /\ UNCHANGED <<objVars, filterVars, result, noopStart, pend, monVars, chanVars,
                   log, loopVars, timeout, pipeVars, ncalls, raised, callerRecv>>

\* ---------------------------------------------------------- specifications
ObserverStep ==
    \/ MonitorStart("obs")
    \/ MonitorEnable("obs")
    \/ Wait
    \/ LoopEntry
    \/ PollSelect("obs")
    \/ PollReceive("obs")
    \/ CallbackReturn
    \/ Join("obs")

SenderStep(t) ==
    \/ SendStopWrite(t)
    \/ SendStopClose(t)
    \/ SendStopSetNone(t)

\* main as the observer's owner: it starts the thread and the monitor.
OwnerStep ==
    \/ ThreadStart
    \/ MonitorStart("main")
    \/ MonitorEnable("main")

\* main as a second reader of the monitor: Monitor.poll() called directly.
ReaderStep ==
    \/ \E tmo \in Timeouts : PollCall(tmo)
    \/ PollSelect("main")
    \/ PollWake
    \/ PollReceive("main")
    \/ PollReturn

StopCalls(seq) ==
    \/ \E t \in Callers : SendStopCall(t, "send_stop", seq)
    \/ \E t \in Threads : SendStopCall(t, "stop", seq)

\* Everything but the calls of send_stop()/stop() and main's own polls.
Exclusive ==
    \/ Deliver
    \/ ObserverStep
    \/ OwnerStep
    \/ \E t \in Threads : SenderStep(t)
    \/ \E t \in Callers : Join(t)

\* Any interleaving of the threads.
Next ==
    \/ Exclusive
    \/ ReaderStep
    \/ StopCalls(FALSE)

Spec == Init /\ [][Next]_vars

\* send_stop()/stop() calls made one at a time.
NextSeq ==
    \/ Exclusive
    \/ ReaderStep
    \/ StopCalls(TRUE)

SpecSeq == Init /\ [][NextSeq]_vars

\* The observer thread is the only reader of the monitor.
NextObs ==
    \/ Exclusive
    \/ StopCalls(FALSE)

\* Every thread that can take a step is scheduled, and callbacks return.
Fairness ==
    /\ WF_vars(ObserverStep)
    /\ \A t \in Threads : WF_vars(SenderStep(t))

FairSpec == Init /\ [][NextObs]_vars /\ Fairness

\* The constructors, and the Monitor used by main alone: every call is made
\* after the one before it has ended.
FilterStep ==
    \/ \E devtype \in BOOLEAN : FilterBy(devtype)
    \/ FilterByTag
    \/ RemoveFilter

NextMon ==
    \/ \E src \in SourceArgs, ok \in BOOLEAN : FromNetlink(src, ok)
    \/ \E cb \in Callbacks : ObserverNew(cb)
    \/ Deliver
    \/ MonitorStart("main")
    \/ MonitorEnable("main")
    \/ MonitorStartAgain
    \/ ReaderStep
    \/ FilterStep

MonSpec == InitCtor /\ [][NextMon]_vars

\* ------------------------------------------------------------------ claims
IsPrefix(s, t) == Len(s) <= Len(t) /\ \A i \in 1..Len(s) : s[i] = t[i]

\* C1: once a stop() call made by a thread other than the observer thread has
\* returned, the callback is never invoked again.
C1_NoCallbackAfterStop == [][stopRet => log' = log]_vars

\* C2: once a stop() call made by a thread other than the observer thread has
\* returned, the observer thread is not running and does not run later.
C2_StopReturnsAfterExit == stopRet => (ObserverExited \/ pc["obs"] = "created")

\* C3: with send_stop() called by several threads at once, one byte is
\* written, the write end is closed once and no call raises.
C3_ConcurrentSendStopOnce == written <= 1 /\ closeCalls <= 1 /\ ~raised

\* C4: with send_stop()/stop() calls made one after another, the first writes
\* one byte and closes the write end, every later call writes nothing, closes
\* nothing and raises nothing, and _stop_event_sink, once None, stays None.
C4_SequentialIdempotent ==
    /\ [](written <= 1 /\ closeCalls <= 1 /\ ~raised)
    /\ [](sinkAttr = "None" => written = 1 /\ closeCalls = 1 /\ ~sinkOpen)
    /\ [][sinkAttr = "None" =>
            sinkAttr' = "None" /\ written' = written /\ closeCalls' = closeCalls]_vars

C4_Witness ==
    /\ ncalls >= 2
    /\ \A t \in Threads : pc[t] \notin {"ss_write", "ss_close", "ss_setnone", "join"}
    /\ sinkAttr = "None"
    /\ written = 1

\* C5: stop() called in the observer thread does not wait in join(), and the
\* observer thread then leaves its loop.
C5_SelfStopExits ==
    /\ (pc["obs"] = "join") ~> (pc["obs"] = "cb_after")
    /\ (op["obs"] = "stop") ~> ObserverExited

C5_Witness == selfStopRet /\ pc["obs"] = "exited"

\* C6: on a wake that lists both the stop pipe and the monitor, the observer
\* thread returns without a receive and without invoking the callback.
C6_StopHasPriority ==
    [][(pc["obs"] = "iter" /\ Len(events) = 2 /\ pos = 1 /\ pc'["obs"] # pc["obs"])
         => (pc'["obs"] = "exited" /\ log' = log /\ queue' = queue)]_vars

\* C7: once send_stop() has been called and the observer thread is started,
\* the observer thread ends.
C7_StopNeverLost == (ncalls > 0 /\ pc["obs"] # "created") ~> ObserverExited

C7_Witness == ncalls > 0 /\ pc["obs"] = "exited" /\ Len(log) >= 1

\* C8: while the observer thread is the only reader of the monitor, the devices
\* passed to the callback are a prefix of the events delivered to the monitor.
C8_CallbackPrefix == ~callerRecv => IsPrefix(log, delivered)

C8_Witness == ~callerRecv /\ Len(log) >= 2 /\ ncalls > 0 /\ ObserverExited

\* C9: with no stop requested, no failed receive and no other reader, the k-th
\* event delivered to the monitor is passed to the callback of a started
\* observer as the k-th device.
C9_EveryEventDelivered ==
    \A k \in 1..MaxEvents :
        (Len(delivered) >= k /\ pc["obs"] # "created")
            ~> (\/ (Len(log) >= k /\ log[k] = delivered[k])
                \/ ncalls > 0 \/ pc["obs"] = "failed" \/ callerRecv)

C9_Witness ==
    /\ ncalls = 0 /\ pc["obs"] # "failed" /\ ~callerRecv
    /\ Len(delivered) = MaxEvents /\ log = delivered

\* C10: when a Monitor.poll() call ends, the monitor is started.
C10_PollStartsMonitor == polled => started

\* C11: with Monitor.start() called several times, one call after the other,
\* only the first call enables receiving, a later call changes nothing of the
\* monitor, and started goes from false to true once and is never set back.
C11_StartIdempotent ==
    /\ [](enableCount <= 1 /\ (started <=> enableCount = 1))
    /\ [][started => (started' /\ enableCount' = enableCount)]_vars
    /\ [](noopStart => started)
    /\ [][noopStart' # noopStart
            => UNCHANGED <<pc, monVars, chanVars, filterVars, objVars, result>>]_vars

C11_Witness == noopStart /\ started /\ enableCount = 1

\* C12: Monitor.poll(timeout) returns None only when the monitor did not get
\* ready within the timeout, and then without a receive; a ready monitor
\* always leads to one receive, after which poll() returns the received
\* Device, the oldest buffered one, or raises EnvironmentError; poll() with
\* timeout None never returns None.
C12_PollResult ==
    /\ [][(pc'["main"] = "poll_ret" /\ pc["main"] # "poll_ret") =>
            \/ /\ pc["main"] \in {"poll_select", "poll_wait"}
               /\ result' = Outcome("None")
               /\ ~MonitorReadable
               /\ timeout # "None"
               /\ queue' = queue
            \/ /\ pc["main"] = "poll_recv"
               /\ \/ queue # <<>> /\ result' = Received(Head(queue)) /\ queue' = Tail(queue)
                  \/ result' = Outcome("error") /\ Len(queue) <= Len(queue') + 1]_vars
    /\ [][(pc["main"] \in {"poll_select", "poll_wait"} /\ MonitorReadable
                /\ pc'["main"] # pc["main"])
            => (pc'["main"] = "poll_recv" /\ queue' = queue)]_vars
    /\ [][(pc["main"] = "poll_recv" /\ pc'["main"] # pc["main"])
            => pc'["main"] = "poll_ret"]_vars

C12_Witness == pc["main"] = "poll_ret" /\ result = Received(2) /\ Len(delivered) = 2

C14_EarlyStopNoCallback ==
    earlyStop => (log = <<>> /\ pc["obs"] \notin {"callback", "failed", "crashed"})

\* C15: whenever the observer thread has ended, in whatever way, both ends of
\* the stop pipe are closed.
C15_PipeClosedAfterExit == ObserverExited => (~srcOpen /\ ~sinkOpen)

\* C16: a receive of the observer thread that yields nothing ends run() with
\* the error: the thread makes no further receive and no further callback
\* invocation; a receive that yields a Device goes to the callback; and run()
\* returns normally only from the stop entry of a wake, with the stop signal
\* sent.
C16_ReceiveErrorFatal ==
    /\ [][(pc["obs"] = "poll_recv" /\ pc'["obs"] # "poll_recv")
            => \/ /\ queue # <<>>
                  /\ pc'["obs"] = "callback"
                  /\ log' = Append(log, Head(queue))
                  /\ queue' = Tail(queue)
               \/ pc'["obs"] = "failed" /\ log' = log]_vars
    /\ [][pc["obs"] = "failed"
            => /\ pc'["obs"] = "failed"
               /\ log' = log
               /\ (pc["main"] # "poll_recv" => Len(queue') >= Len(queue))]_vars
    /\ [][(pc'["obs"] = "exited" /\ pc["obs"] # "exited")
            => (pc["obs"] = "iter" /\ events[pos] = "stop" /\ log' = log)]_vars
    /\ [](pc["obs"] = "exited" => (ncalls > 0 /\ (written > 0 \/ ~sinkOpen)))

C16_Witness == pc["obs"] = "failed" /\ queue # <<>> /\ ncalls = 0 /\ ~callerRecv

\* The positions of a thread inside send_stop()/stop().
InStop(t) == pc[t] \in {"ss_write", "ss_close", "ss_setnone", "join"}

\* C17: no step of a send_stop() or stop() call changes the monitor: started,
\* the enabled socket, the events it has buffered and its filters stay as
\* they are, and the monitor object stays in existence.
C17_StopLeavesMonitor ==
    [][(\/ \E t \in Threads : pc'[t] # pc[t] /\ (InStop(t) \/ InStop(t)')
        \/ ncalls' # ncalls)
         => UNCHANGED <<monVars, chanVars, filterVars, monitor>>]_vars

\* After stop() the observer has ended and main has received a Device from
\* the monitor by a direct poll().
C17_Witness ==
    /\ stopRet /\ pc["obs"] = "exited"
    /\ pc["main"] = "poll_ret" /\ result = Received(2)

\* C18: Monitor.from_netlink() with a source other than "udev" and "kernel"
\* raises ValueError without a connection attempt; with a valid source it
\* makes one attempt and either returns a Monitor with started false or raises
\* EnvironmentError.
C18_FromNetlink ==
    /\ [][(~monitor /\ source' \notin Sources /\ <<source, ctorError>>' # <<source, ctorError>>)
            => (ctorError' = "ValueError" /\ connects' = connects /\ ~monitor')]_vars
    /\ [][connects' # connects
            => /\ source' \in Sources
               /\ connects' = connects + 1
               /\ \/ monitor' /\ ~started' /\ enableCount' = 0 /\ ctorError' = "none"
                  \/ ~monitor' /\ ctorError' = "EnvironmentError"]_vars
    /\ [][monitor' # monitor => (connects' # connects /\ monitor')]_vars
    /\ [](~monitor => (ctorError = "none" <=> connects = 0 /\ source = "none"))

C18_Witness ==
    /\ monitor /\ ~started /\ connects = 2 /\ source = "kernel"

\* C19: MonitorObserver() without a callback raises ValueError and creates
\* neither the pipe nor the thread object; with a callback it leaves both pipe
\* ends open, nothing written, and the thread not started.
C19_ObserverInit ==
    /\ [](pc["obs"] = "none" => (~sinkOpen /\ ~srcOpen /\ sinkAttr = "unset"))
    /\ [][(monitor /\ ctorError' = "ValueError" /\ ctorError # "ValueError")
            => UNCHANGED <<pc, pipeVars>>]_vars
    /\ [][pc'["obs"] # pc["obs"]
            => /\ pc["obs"] = "none" /\ pc'["obs"] = "created"
               /\ ctorError' = "none"
               /\ sinkAttr' = "fd" /\ sinkOpen' /\ srcOpen' /\ written' = 0]_vars

C19_Witness ==
    /\ monitor /\ ctorError = "ValueError" /\ pc["obs"] = "none"
    /\ ~sinkOpen /\ ~srcOpen

\* C20: after every filter_by(), filter_by_tag() and remove_filter() call the
\* filter installed on the socket is the filter set of the monitor object, on
\* a started monitor and on one not started, and no such call changes started.
C20_FilterCommitted ==
    /\ [](filters \subseteq Matches /\ kernelFilters = filters)
    /\ [][filters' # filters => UNCHANGED <<pc, monVars, chanVars>>]_vars

C20_Witness == started /\ queue # <<>> /\ kernelFilters = Matches

\* The observer thread is in the loop of run(): waiting, handling an entry of
\* a wake, or in the callback.
InLoop ==
    pc["obs"] \notin {"none", "created", "run", "ms_enable", "exited", "failed", "crashed"}

\* C21: whenever the observer thread is in its wait loop or in the callback,
\* the monitor's started flag is true and receiving has been enabled.
C21_StartedInLoop == InLoop => (started /\ enableCount >= 1)

C21_Witness == pc["obs"] = "callback" /\ started /\ Len(log) = 2

\* C22: for each monitor entry of a wake the observer thread calls
\* Monitor.poll(timeout=0) once and never waits in it; a Device it returns
\* goes to the callback, once; when it returns None the callback is not
\* invoked and the thread goes on with the next entry or the next wait.
C22_OnePollPerReport ==
    /\ [][(pc["obs"] = "iter" /\ events[pos] = "monitor" /\ pc'["obs"] # pc["obs"])
            => (pc'["obs"] = "poll_select" /\ UNCHANGED <<queue, log, loopVars>>)]_vars
    /\ [][(pc["obs"] = "poll_select" /\ pc'["obs"] # pc["obs"])
            => /\ UNCHANGED <<queue, log>>
               /\ IF queue = <<>>
                  THEN pc'["obs"] \in {"wait", "iter"}
                  ELSE pc'["obs"] = "poll_recv" /\ UNCHANGED loopVars]_vars
    /\ [][log' # log
            => /\ pc["obs"] = "poll_recv" /\ pc'["obs"] = "callback"
               /\ queue # <<>>
               /\ log' = Append(log, Head(queue))
               /\ queue' = Tail(queue)]_vars
    /\ [][(pc["obs"] \in {"poll_select", "callback", "cb_after"}
                /\ pc'["obs"] \in {"wait", "iter"})
            => IF pos < Len(events)
               THEN pc'["obs"] = "iter" /\ pos' = pos + 1 /\ events' = events
               ELSE pc'["obs"] = "wait"]_vars
    /\ [](pc["obs"] # "poll_wait")

\* The monitor entry of a wake was handled with no Device to receive: no
\* callback, no error, and the loop is at the next entry.
C22_Witness ==
    /\ pc["obs"] = "iter" /\ pos = 2 /\ events[1] = "monitor"
    /\ log = <<>> /\ queue = <<>>

\* A callback invocation is in progress: the callback runs, or is inside a
\* send_stop()/stop() call it made.
InCallback ==
    pc["obs"] \in {"callback", "cb_after", "ss_write", "ss_close", "ss_setnone", "join"}

\* C23: while a callback invocation is in progress the observer thread starts
\* no other one, makes no wait and no receive and does not act on the stop
\* signal, and no stop() call of a foreign thread returns.
C23_CallbackSerialized ==
    /\ [][InCallback
            => /\ log' = log
               /\ srcOpen' = srcOpen
               /\ (pc["main"] # "poll_recv" => queue' = queue \/ Len(queue') > Len(queue))
               /\ pc'["obs"] \notin {"exited", "failed", "poll_select", "poll_recv"}
               /\ (events' # events => pc'["obs"] \in {"wait", "crashed"})]_vars
    /\ [][(\E t \in Callers : pc[t] = "join" /\ pc'[t] # "join") => ~InCallback]_vars
    /\ [][(~InCallback /\ InCallback') => Len(log') = Len(log) + 1]_vars

\* A stop() call of main waits in join() while the callback is running.
C23_Witness ==
    /\ pc["main"] = "join" /\ op["main"] = "stop" /\ sinkAttr = "None"
    /\ pc["obs"] = "callback"

\* C24: with send_stop() calls made one at a time, no call raises, every step
\* of a call can be taken whatever the observer thread does, and a call of
\* send_stop() never reaches join().
C24_SendStopNeverWaits ==
    /\ ~raised
    /\ \A t \in Threads :
         /\ pc[t] \in {"ss_write", "ss_close", "ss_setnone"} => ENABLED SenderStep(t)
         /\ pc[t] = "join" => op[t] = "stop"

\* One send_stop() call has ended without raising, with the observer thread
\* ended by a receive error.
C24_Witness ==
    /\ pc["obs"] = "failed" /\ ncalls = 1 /\ sinkAttr = "None" /\ written = 1
    /\ ~stopRet /\ ~selfStopRet /\ \A t \in Threads : ~InStop(t)

\* C25: udev_monitor_enable_receiving is called at most once for the monitor,
\* also when main calls Monitor.start() while run() of the observer thread
\* calls it.
C25_EnableOnce == enableCount <= 1

====
